---- MODULE Spec2Model ----
(***************************************************************************)
(* Membership Tracker (src/app.py): a Streamlit script over two MySQL      *)
(* tables, members and plans.  Every user interaction re-executes the      *)
(* script from the top (load_members, load_plans, refresh_status), runs    *)
(* the handler of the widget that was used and, when the handler changed   *)
(* the database, calls st.rerun(), which executes the script once more.    *)
(*                                                                         *)
(* Text values (member ids, names, emails) are sequences of one-character  *)
(* strings, so that strip(), lower(), startswith(), isdigit(), int() and   *)
(* the format specification :04d are computed character by character.     *)
(* Dates are records [year, month, day]; None stands for NULL / NaT.       *)
(* The columns Phone and Notes are copied verbatim by every statement and  *)
(* read by no condition; they are left out of the rows.                    *)
(***************************************************************************)
EXTENDS Integers, Sequences, FiniteSets, TLC

VARIABLES
    db,                 \* table members: a set of rows
    plansDb,            \* table plans: a function Plan -> DurationMonths
    members,            \* the DataFrame `members` of the last script run
    plans,              \* the dict `plans` of the last script run
    today,              \* date.today()
    session_member_id,  \* st.session_state['member_id']
    request,            \* the widget values of the last interaction
    shown,              \* the st.error / st.success calls of its handler
    runs,               \* how many interactions the script has served
    issued,             \* history: the auto-generated ids given to new members, in order
    call,               \* calculator: the function applied and its arguments
    ret                 \* calculator: the value returned

vars == <<db, plansDb, members, plans, today, session_member_id, request, shown, runs, issued, call, ret>>

appVars == <<db, plansDb, members, plans, today, session_member_id, request, shown, runs, issued>>

----------------------------------------------------------------------------
(* datetime.date *)

MINYEAR == 1

MAXYEAR == 9999

None == [year |-> 0, month |-> 0, day |-> 0]

\* the value standing for "date(...) raised ValueError"
ValueError == [year |-> -1, month |-> 0, day |-> 0]

D(y, m, d) == [year |-> y, month |-> m, day |-> d]

IsLeap(y) == (y % 4 = 0 /\ y % 100 # 0) \/ y % 400 = 0

DaysInMonth(y, m) ==
    IF m = 2 THEN (IF IsLeap(y) THEN 29 ELSE 28)
    ELSE IF m \in {4, 6, 9, 11} THEN 30 ELSE 31

IsValidDate(x) ==
    /\ x.year \in MINYEAR..MAXYEAR
    /\ x.month \in 1..12
    /\ x.day >= 1
    /\ x.day <= DaysInMonth(x.year, x.month)

\* date(year, month, day): the constructor raises ValueError out of range
date(y, m, d) == IF IsValidDate(D(y, m, d)) THEN D(y, m, d) ELSE ValueError

notna(x) == x # None

\* a < b and a <= b on dates
DateLT(a, b) ==
    \/ a.year < b.year
    \/ a.year = b.year /\ a.month < b.month
    \/ a.year = b.year /\ a.month = b.month /\ a.day < b.day

DateLE(a, b) == a = b \/ DateLT(a, b)

Min(a, b) == IF a <= b THEN a ELSE b

----------------------------------------------------------------------------
(* str *)

Digits == <<"0", "1", "2", "3", "4", "5", "6", "7", "8", "9">>

IsDigitChar(c) == \E i \in 1..10 : Digits[i] = c

DigitVal(c) == (CHOOSE i \in 1..10 : Digits[i] = c) - 1

\* str.isdigit(): non-empty and every character a digit
isdigit(s) == Len(s) > 0 /\ \A i \in 1..Len(s) : IsDigitChar(s[i])

\* int(s) for a string of digits
RECURSIVE int(_)
int(s) == IF Len(s) = 0 THEN 0
          ELSE 10 * int(SubSeq(s, 1, Len(s) - 1)) + DigitVal(s[Len(s)])

\* str(n) for n >= 0
RECURSIVE str(_)
str(n) == IF n < 10 THEN <<Digits[n + 1]>>
          ELSE str(n \div 10) \o <<Digits[(n % 10) + 1]>>

\* format(n, "0{w}d"): zero-padded on the left to at least w characters
RECURSIVE zfill(_, _)
zfill(s, w) == IF Len(s) >= w THEN s ELSE zfill(<<"0">> \o s, w)

startswith(s, c) == Len(s) > 0 /\ s[1] = c

RECURSIVE lstrip(_)
lstrip(s) == IF Len(s) > 0 /\ s[1] = " " THEN lstrip(Tail(s)) ELSE s

RECURSIVE rstrip(_)
rstrip(s) == IF Len(s) > 0 /\ s[Len(s)] = " "
             THEN rstrip(SubSeq(s, 1, Len(s) - 1)) ELSE s

strip(s) == rstrip(lstrip(s))

LowerChar(c) == IF c = "A" THEN "a" ELSE IF c = "B" THEN "b" ELSE c

lower(s) == [i \in 1..Len(s) |-> LowerChar(s[i])]

RECURSIVE SetMax(_)
SetMax(S) == LET x == CHOOSE x \in S : TRUE
             IN IF S = {x} THEN x
                ELSE LET r == SetMax(S \ {x}) IN IF x > r THEN x ELSE r

----------------------------------------------------------------------------
(* Utility functions, src/app.py 117-134 *)

deriveStatus(x, day) ==
    IF notna(x) /\ DateLE(day, x) THEN "Active"
    ELSE IF notna(x) THEN "Expired" ELSE "Unknown"

\* mutant of refresh_status: the stored status is kept
refresh_status_stored(df, day) == df

refresh_status(df, day) ==
    {[r EXCEPT !.Status = deriveStatus(r.EndDate, day)] : r \in df}

\* mutants of plan_end_date: an absent plan counts 0 months; the day is clamped at 30
plan_end_date_default0(start, plan_name, plans_dict) ==
    LET months == IF plan_name \in DOMAIN plans_dict
                  THEN plans_dict[plan_name] ELSE 0
        year   == start.year + ((start.month - 1 + months) \div 12)
        month  == ((start.month - 1 + months) % 12) + 1
        day    == Min(start.day, 28)
    IN date(year, month, day)

plan_end_date_clamp30(start, plan_name, plans_dict) ==
    LET months == IF plan_name \in DOMAIN plans_dict
                  THEN plans_dict[plan_name] ELSE 12
        year   == start.year + ((start.month - 1 + months) \div 12)
        month  == ((start.month - 1 + months) % 12) + 1
        day    == Min(start.day, 30)
    IN date(year, month, day)

plan_end_date(start, plan_name, plans_dict) ==
    LET months == IF plan_name \in DOMAIN plans_dict
                  THEN plans_dict[plan_name] ELSE 12
        year   == start.year + ((start.month - 1 + months) \div 12)
        month  == ((start.month - 1 + months) % 12) + 1
        day    == Min(start.day, 28)
    IN date(year, month, day)

\* mutant of generate_member_id: the largest number is not incremented
generate_member_id_max(df) ==
    LET existing == {r.MemberID : r \in df}
        nums == {int(Tail(v)) : v \in {e \in existing :
                                         startswith(e, "M") /\ isdigit(Tail(e))}}
    IN IF nums # {} THEN <<"M">> \o zfill(str(SetMax(nums)), 4)
       ELSE <<"M", "0", "0", "1">>

generate_member_id(df) ==
    LET existing == {r.MemberID : r \in df}
        nums == {int(Tail(v)) : v \in {e \in existing :
                                         startswith(e, "M") /\ isdigit(Tail(e))}}
    IN IF nums # {} THEN <<"M">> \o zfill(str(SetMax(nums) + 1), 4)
       ELSE <<"M", "0", "0", "1">>

----------------------------------------------------------------------------
(* Bounds and the values the user enters *)

MaxRuns == 3         \* interactions served in one behaviour

\* the days on which the application is used, in order
Calendar == <<D(2024, 1, 31), D(2024, 5, 1)>>

DayIndex(d) == CHOOSE i \in 1..Len(Calendar) : Calendar[i] = d

\* ids typed into "Member ID" instead of the pre-filled one
TypedIds == {<<" ">>, <<"M", "0", "0", "0", "3">>, <<"X", "7", " ">>}

AddNames == {<<" ">>, <<"A", " ">>}

Emails == {<<>>, <<" ", "A">>}

\* emails typed into the edit form instead of the pre-filled one
EditEmails == {<<"a">>}

\* dates picked in "End Date" instead of the pre-filled one
EndChoices == {D(2024, 2, 10)}

RenewMonths == {0, 11}

\* rows edited in the Settings data editor
EditDurations == {1}

NewPlans == {"Trial"}

\* rows deleted in the Settings data editor
DeletedPlans == {"Silver"}

\* the plans the user picks in the "Plan Type" select boxes
PickedPlans == {"Bronze", "Trial"}

----------------------------------------------------------------------------
(* CONFIG and the tables, src/app.py 22-112 *)

DEFAULT_PLANS ==
    [p \in {"Bronze", "Silver", "Gold", "Platinum"} |->
        IF p = "Bronze" THEN 3 ELSE IF p = "Silver" THEN 6
        ELSE IF p = "Gold" THEN 9 ELSE 12]

\* ensure_tables_exist: the default plans are inserted into an empty table
ensure_tables_exist(table) ==
    IF DOMAIN table = {} THEN DEFAULT_PLANS ELSE table

\* load_members: SELECT * FROM members, dates coerced to date or NaT
load_members(table) == table

\* load_plans: {row[0]: row[1] for row in rows}
load_plans(table) == table

\* the DataFrame `members` after lines 111 and 136
Loaded(table, day) == refresh_status(load_members(table), day)

Ids(df) == {r.MemberID : r \in df}

\* a table written before this session: a row with no end date and a plan
\* that is not in the catalog
LegacyRow ==
    [MemberID |-> <<"X", "7">>, Name |-> <<"L">>, Email |-> <<"a">>,
     StartDate |-> D(2023, 1, 15), EndDate |-> None,
     PlanType |-> "Legacy", Status |-> "Active"]

InitialTables == {{}, {LegacyRow}}

----------------------------------------------------------------------------
(* Functions for DB operations, src/app.py 157-190 *)

\* INSERT INTO members: MemberID is the PRIMARY KEY
InsertRow(table, row) ==
    IF row.MemberID \in Ids(table) THEN table ELSE table \cup {row}

add_member_to_db(table, member_id, name, email, start_date, end_date, plan_choice, day) ==
    LET status == IF DateLE(day, end_date) THEN "Active" ELSE "Expired"
        row == [MemberID |-> member_id, Name |-> name, Email |-> email,
                StartDate |-> start_date, EndDate |-> end_date,
                PlanType |-> plan_choice, Status |-> status]
    IN [db |-> InsertRow(table, row),
        shown |-> IF member_id \in Ids(table)
                  THEN <<"Failed to add member">>
                  ELSE <<"added successfully">>]

\* UPDATE members SET ... WHERE MemberID = member_id
update_member_in_db(table, member_id, name, email, start_date, end_date, plan_choice, day) ==
    LET status == IF DateLE(day, end_date) THEN "Active" ELSE "Expired"
    IN {IF r.MemberID = member_id
        THEN [MemberID |-> r.MemberID, Name |-> name, Email |-> email,
              StartDate |-> start_date, EndDate |-> end_date,
              PlanType |-> plan_choice, Status |-> status]
        ELSE r : r \in table}

\* REPLACE INTO plans for every row of the edited frame
save_plans_to_db(table, plans_df) ==
    [p \in DOMAIN table \cup DOMAIN plans_df |->
        IF p \in DOMAIN plans_df THEN plans_df[p] ELSE table[p]]

\* DELETE FROM members WHERE MemberID = to_delete
delete_member(table, to_delete) == {r \in table : r.MemberID # to_delete}

----------------------------------------------------------------------------
(* The script and its handlers, src/app.py 111-112, 136-152, 388-396,      *)
(* 411-500, 502-613, 616-623                                               *)

EmptyCatalog == [p \in {} |-> 0]

Req(op, member_id, auto, end_date, renew_months, apply_quick, edited, name, email) ==
    [op |-> op, member_id |-> member_id, auto |-> auto, end_date |-> end_date,
     renew_months |-> renew_months, apply_quick |-> apply_quick,
     edited |-> edited, name |-> name, email |-> email]

NoCall == [fn |-> "none", start |-> None, plan_name |-> "", plans_dict |-> EmptyCatalog,
           df |-> {}, months |-> 0]

NoRet == [done |-> FALSE, date |-> None, id |-> <<>>]

\* quick_renew as it would be with the carry into the year left out
quick_renew_no_carry(end_date, day, apply_quick, renew_months) ==
    IF apply_quick /\ renew_months > 0
    THEN LET base  == IF notna(end_date) THEN end_date ELSE day
             month == ((base.month - 1 + renew_months) % 12) + 1
             day_  == Min(base.day, 28)
         IN date(base.year, month, day_)
    ELSE end_date

\* lines 587-595: the end date the edit form saves
quick_renew(end_date, day, apply_quick, renew_months) ==
    IF apply_quick /\ renew_months > 0
    THEN LET base  == IF notna(end_date) THEN end_date ELSE day
             year  == base.year + ((base.month - 1 + renew_months) \div 12)
             month == ((base.month - 1 + renew_months) % 12) + 1
             day_  == Min(base.day, 28)
         IN date(year, month, day_)
    ELSE end_date

\* mutant of edit_start_date: the form passes today
edit_start_date_today(sel_row, day) == day

\* lines 548 and 603: the start date the edit form passes on
edit_start_date(sel_row, day) ==
    IF notna(sel_row.StartDate) THEN sel_row.StartDate ELSE day

\* lines 560-565: the value the "End Date" input of the edit form starts with
edit_end_default(sel_row, day, plan_choice, plans_dict) ==
    IF notna(sel_row.EndDate) THEN sel_row.EndDate
    ELSE plan_end_date(day, plan_choice, plans_dict)

\* add_validation as it would be without the look-up of the email
add_validation_no_email(df, member_id, name, email) ==
    IF strip(member_id) = <<>> \/ strip(name) = <<>>
    THEN "Member ID and Full Name are required"
    ELSE IF strip(member_id) \in Ids(df)
    THEN "Member ID already exists"
    ELSE ""

\* mutant of add_validation: the member id is not looked up
add_validation_no_id(df, member_id, name, email) ==
    LET existing_emails == {lower(r.Email) : r \in df}
    IN IF strip(member_id) = <<>> \/ strip(name) = <<>>
       THEN "Member ID and Full Name are required"
       ELSE IF strip(email) # <<>> /\ lower(strip(email)) \in existing_emails
       THEN "Email already exists"
       ELSE ""

\* lines 472-481: the validations of the add form; "" when all pass
add_validation(df, member_id, name, email) ==
    LET existing_emails == {lower(r.Email) : r \in df}
        existing_ids    == Ids(df)
    IN IF strip(member_id) = <<>> \/ strip(name) = <<>>
       THEN "Member ID and Full Name are required"
       ELSE IF strip(email) # <<>> /\ lower(strip(email)) \in existing_emails
       THEN "Email already exists"
       ELSE IF strip(member_id) \in existing_ids
       THEN "Member ID already exists"
       ELSE ""

\* the frames the data editor can hand to "Save Plans": a row removed, the
\* duration of a row changed, a row added
EditedCatalogs(p) ==
    {p}
    \cup {[q \in DOMAIN p \ {x} |-> p[q]] : x \in DOMAIN p \cap DeletedPlans}
    \cup {[p EXCEPT ![x] = d] : x \in DOMAIN p \cap {"Bronze"}, d \in EditDurations}
    \cup {[q \in DOMAIN p \cup {n} |-> IF q = n THEN d ELSE p[q]] :
             n \in NewPlans \ DOMAIN p, d \in EditDurations}

\* one more interaction is served
Served == runs < MaxRuns /\ runs' = runs + 1

Init ==
    /\ db \in InitialTables
    /\ plansDb = ensure_tables_exist(EmptyCatalog)
    /\ today = Calendar[1]
    /\ members = Loaded(db, today)
    /\ plans = load_plans(plansDb)
    /\ session_member_id = generate_member_id(members)
    /\ request = Req("none", <<>>, FALSE, None, 0, FALSE, EmptyCatalog, <<>>, <<>>)
    /\ shown = <<>>
    /\ runs = 0
    /\ issued = <<>>
    /\ call = NoCall
    /\ ret = NoRet

\* the calendar day changes; nothing runs
Tick ==
    /\ DayIndex(today) < Len(Calendar)
    /\ today' = Calendar[DayIndex(today) + 1]
    /\ UNCHANGED <<db, plansDb, members, plans, session_member_id, request, shown, runs, issued, call, ret>>

\* an interaction with no handler (a filter, a tab): the script runs again
Rerun ==
    /\ Served
    /\ plansDb' = ensure_tables_exist(plansDb)
    /\ members' = Loaded(db, today)
    /\ plans' = load_plans(plansDb')
    /\ request' = Req("rerun", <<>>, FALSE, None, 0, FALSE, EmptyCatalog, <<>>, <<>>)
    /\ shown' = <<>>
    /\ UNCHANGED <<db, today, session_member_id, issued, call, ret>>

\* a new browser session: session_state is empty, lines 141-152 fill it
NewSession ==
    /\ Served
    /\ plansDb' = ensure_tables_exist(plansDb)
    /\ members' = Loaded(db, today)
    /\ plans' = load_plans(plansDb')
    /\ session_member_id' = generate_member_id(members')
    /\ request' = Req("session", <<>>, FALSE, None, 0, FALSE, EmptyCatalog, <<>>, <<>>)
    /\ shown' = <<>>
    /\ UNCHANGED <<db, today, issued, call, ret>>

\* "Add Member" submitted, lines 432-500
AddMember ==
    LET m0 == Loaded(db, today)
        p0 == load_plans(ensure_tables_exist(plansDb))
    IN \E typed \in {session_member_id} \cup TypedIds, name \in AddNames,
          email \in Emails, start_date \in {today}, plan_choice \in DOMAIN p0 \cap PickedPlans :
       LET end_date_auto == plan_end_date(start_date, plan_choice, p0)
       IN /\ Served
          /\ end_date_auto # ValueError      \* line 454 raised: no form to submit
          /\ LET end_date  == end_date_auto  \* "End Date" left as pre-filled
                 blank     == strip(typed) = <<>>
                 member_id == IF blank THEN generate_member_id(m0) ELSE typed
                 auto      == blank \/ typed = session_member_id
                 error     == add_validation(m0, member_id, name, email)
                 added     == add_member_to_db(db, strip(member_id), strip(name),
                                  strip(email), start_date, end_date, plan_choice, today)
             IN /\ request' = Req("add", strip(member_id), auto, None, 0, FALSE,
                                  EmptyCatalog, name, email)
                /\ plansDb' = ensure_tables_exist(plansDb)
                /\ plans' = p0
                /\ IF error # ""
                   THEN /\ shown' = <<error>>
                        /\ db' = db
                        /\ members' = m0
                        /\ UNCHANGED <<session_member_id, issued>>
                   ELSE /\ db' = added.db
                        /\ shown' = added.shown \o <<"added successfully">>
                        /\ members' = Loaded(db', today)
                        /\ session_member_id' = generate_member_id(members')
                        /\ issued' = IF auto /\ db' # db
                                      THEN Append(issued, strip(member_id))
                                      ELSE issued
                /\ UNCHANGED <<today, call, ret>>

\* "Save Changes" in the Renew / Edit form, lines 505-613
EditMember ==
    LET m0 == Loaded(db, today)
        p0 == load_plans(ensure_tables_exist(plansDb))
    IN \E sel_row \in m0 :
       \E email \in EditEmails \cup {sel_row.Email}, plan_choice \in DOMAIN p0 \cap PickedPlans,
          renew_months \in RenewMonths, apply_quick \in BOOLEAN :
       LET end_default == edit_end_default(sel_row, today, plan_choice, p0)
       IN /\ Served
          /\ end_default # ValueError        \* line 560 raised: no form to submit
          /\ \E end_date \in {end_default} \cup EndChoices :
             LET name       == sel_row.Name   \* "Full Name" left as pre-filled
                 start_date == edit_start_date(sel_row, today)
                 new_end    == quick_renew(end_date, today, apply_quick, renew_months)
             IN /\ request' = Req("edit", sel_row.MemberID, FALSE, end_date,
                                  renew_months, apply_quick, EmptyCatalog, <<>>, <<>>)
                /\ plansDb' = ensure_tables_exist(plansDb)
                /\ plans' = p0
                /\ IF new_end = ValueError
                   THEN /\ shown' = <<"ValueError">>
                        /\ db' = db
                        /\ members' = m0
                   ELSE /\ db' = update_member_in_db(db, sel_row.MemberID, strip(name),
                                     strip(email), start_date, new_end, plan_choice, today)
                        /\ shown' = <<"updated successfully", "updated successfully">>
                        /\ members' = Loaded(db', today)
                /\ UNCHANGED <<today, session_member_id, issued, call, ret>>

\* "Delete Member", lines 388-396
DeleteMember ==
    LET m0 == Loaded(db, today)
    IN \E to_delete \in Ids(m0) :
          /\ Served
          /\ db' = delete_member(db, to_delete)
          /\ plansDb' = ensure_tables_exist(plansDb)
          /\ members' = Loaded(db', today)
          /\ plans' = load_plans(plansDb')
          /\ request' = Req("delete", to_delete, FALSE, None, 0, FALSE, EmptyCatalog, <<>>, <<>>)
          /\ shown' = <<"deleted successfully">>
          /\ UNCHANGED <<today, session_member_id, issued, call, ret>>

\* "Save Plans" as it would be if members of plans missing from the saved
\* catalog were removed with them
SavePlans_cascade ==
    LET p0 == load_plans(ensure_tables_exist(plansDb))
    IN \E edited \in EditedCatalogs(p0) :
          /\ Served
          /\ plansDb' = save_plans_to_db(ensure_tables_exist(plansDb), edited)
          /\ plans' = load_plans(plansDb')
          /\ db' = {r \in db : r.PlanType \in DOMAIN plansDb'}
          /\ members' = Loaded(db', today)
          /\ request' = Req("save_plans", <<>>, FALSE, None, 0, FALSE, edited, <<>>, <<>>)
          /\ shown' = <<"Plans saved successfully">>
          /\ UNCHANGED <<today, session_member_id, issued, call, ret>>

\* "Save Plans" in Settings, lines 617-623
SavePlans ==
    LET p0 == load_plans(ensure_tables_exist(plansDb))
    IN \E edited \in EditedCatalogs(p0) :
          /\ Served
          /\ plansDb' = save_plans_to_db(ensure_tables_exist(plansDb), edited)
          /\ plans' = load_plans(plansDb')
          /\ members' = Loaded(db, today)
          /\ request' = Req("save_plans", <<>>, FALSE, None, 0, FALSE, edited, <<>>, <<>>)
          /\ shown' = <<"Plans saved successfully">>
          /\ UNCHANGED <<db, today, session_member_id, issued, call, ret>>

Next ==
    \/ Tick
    \/ Rerun
    \/ NewSession
    \/ AddMember
    \/ EditMember
    \/ DeleteMember
    \/ SavePlans

Spec == Init /\ [][Next]_vars

----------------------------------------------------------------------------
(* The utility functions applied on their own to sampled arguments *)

MaxMonths == 13      \* plan durations 0..MaxMonths are tried, and 600

CalcYears == {2023, 2024, MAXYEAR}

\* every calendar day of the sampled years
CalcStarts ==
    {x \in {D(y, m, d) : y \in CalcYears, m \in 1..12, d \in 1..31} : IsValidDate(x)}

CalcCatalogs ==
    {[p \in {"Gold"} |-> n] : n \in (0..MaxMonths) \cup {600}}
    \cup {[p \in {"Bronze"} |-> 3]}

CalcPlanNames == {"Gold", "Nonexistent"}

CalcIds ==
    {<<"M", "0", "0", "0", "1">>, <<"M", "0", "0", "0", "3">>, <<"X", "9">>,
     <<"M", "7">>, <<"M">>, <<"M", "9", "9", "9", "9">>, <<"M", "1", "a">>,
     <<"m", "0", "0", "0", "5">>}

\* line 576: max_value of "Renew for how many months?"
RenewMax == 60

\* the end dates the edit form can hold: any day of the sampled years, or none
RenewBases == CalcStarts \cup {None}

CalcCalls ==
    {[fn |-> "plan_end_date", start |-> x, plan_name |-> n, plans_dict |-> c,
      df |-> {}, months |-> 0] :
        x \in CalcStarts, n \in CalcPlanNames, c \in CalcCatalogs}
    \cup
    {[fn |-> "generate_member_id", start |-> None, plan_name |-> "",
      plans_dict |-> EmptyCatalog, df |-> {[MemberID |-> i] : i \in S},
      months |-> 0] : S \in SUBSET CalcIds}

\* every month count of the number input on every base
RenewCalls ==
    {[fn |-> "quick_renew", start |-> x, plan_name |-> "",
      plans_dict |-> EmptyCatalog, df |-> {}, months |-> n] :
        x \in RenewBases, n \in 0..RenewMax}

InitCalc ==
    /\ db = {}
    /\ plansDb = ensure_tables_exist(EmptyCatalog)
    /\ today = Calendar[1]
    /\ members = Loaded(db, today)
    /\ plans = load_plans(plansDb)
    /\ session_member_id = generate_member_id(members)
    /\ request = Req("none", <<>>, FALSE, None, 0, FALSE, EmptyCatalog, <<>>, <<>>)
    /\ shown = <<>>
    /\ runs = 0
    /\ issued = <<>>
    /\ (call \in CalcCalls \/ call \in RenewCalls)
    /\ ret = NoRet

CallPlanEndDate ==
    /\ call.fn = "plan_end_date"
    /\ ~ret.done
    /\ ret' = [done |-> TRUE,
               date |-> plan_end_date(call.start, call.plan_name, call.plans_dict),
               id |-> <<>>]
    /\ UNCHANGED <<appVars, call>>

CallGenerateMemberId ==
    /\ call.fn = "generate_member_id"
    /\ ~ret.done
    /\ ret' = [done |-> TRUE, date |-> None, id |-> generate_member_id(call.df)]
    /\ UNCHANGED <<appVars, call>>

\* "Save Changes" with "Apply quick renew" ticked, lines 587-595
CallQuickRenew ==
    /\ call.fn = "quick_renew"
    /\ ~ret.done
    /\ ret' = [done |-> TRUE,
               date |-> quick_renew(call.start, today, TRUE, call.months),
               id |-> <<>>]
    /\ UNCHANGED <<appVars, call>>

NextCalc ==
    \/ CallPlanEndDate
    \/ CallGenerateMemberId
    \/ CallQuickRenew

SpecCalc == InitCalc /\ [][NextCalc]_vars

----------------------------------------------------------------------------
(* Properties *)

Conforming(i) == startswith(i, "M") /\ isdigit(Tail(i))

IdNum(i) == int(Tail(i))

RowOf(table, i) == CHOOSE r \in table : r.MemberID = i

Range(q) == {q[i] : i \in 1..Len(q)}

\* C1 as stated: the numbers of the auto-generated ids only grow, so that no
\* generated id is handed out twice, whatever was deleted in between.
C1_NeverReused ==
    \A i \in 1..Len(issued), j \in 1..Len(issued) :
        i < j => IdNum(issued[i]) < IdNum(issued[j])

\* C1 amended: an auto-generated id given to a new member is held by no
\* member of the table at that moment, and its number is greater than the
\* number of every conforming id in the table at that moment.
C1_GreaterThanExisting ==
    [][Len(issued') > Len(issued) =>
          LET new == issued'[Len(issued')]
          IN /\ new \notin Ids(db)
             /\ Conforming(new)
             /\ \A r \in db : Conforming(r.MemberID) => IdNum(r.MemberID) < IdNum(new)
      ]_vars

\* an id was generated, its member deleted, and the same id generated again
C1_Witness ==
    \E i \in 1..Len(issued), j \in 1..Len(issued) : i < j /\ issued[i] = issued[j]

\* C2 as stated: generateMemberId returns "M" and max + 1 padded to four
\* digits, max being the largest number among the ids made of "M" and
\* digits only, and "M0001" when no id has that form.
C2_GeneratedIdAsSpecified ==
    (call.fn = "generate_member_id" /\ ret.done) =>
        LET nums == {IdNum(r.MemberID) : r \in {x \in call.df : Conforming(x.MemberID)}}
        IN ret.id = IF nums = {} THEN <<"M", "0", "0", "0", "1">>
                    ELSE <<"M">> \o zfill(str(SetMax(nums) + 1), 4)

\* C3 as stated: no two members of the table have non-empty emails that are
\* equal when compared case-insensitively.
C3_EmailsUnique ==
    \A r1 \in db, r2 \in db :
        (r1 # r2 /\ r1.Email # <<>>) => lower(r1.Email) # lower(r2.Email)

\* C4: no two members of the table share a member id, and an add whose id
\* is already in the table changes no row and reports no success.
C4_MemberIdsUnique ==
    /\ \A r1 \in db, r2 \in db : r1.MemberID = r2.MemberID => r1 = r2
    /\ [][/\ \A r1 \in db', r2 \in db' : r1.MemberID = r2.MemberID => r1 = r2
          /\ (request'.op = "add" /\ runs' # runs /\ request'.member_id \in Ids(db)) =>
                (db' = db /\ "added successfully" \notin Range(shown'))
         ]_vars

\* an add with the id of a member of the table was turned down
C4_Witness ==
    /\ request.op = "add"
    /\ request.member_id \in Ids(db)
    /\ shown = <<"Member ID already exists">>
    /\ Cardinality(db) = 2

\* C5 as stated: after Save Plans the stored catalog is exactly the edited
\* catalog, so a plan removed in the editor is gone.
C5_CatalogReplaced ==
    request.op = "save_plans" => (plansDb = request.edited /\ plans = request.edited)

\* the claim's arithmetic: x plus n months, the day clamped at 28
ClaimedYear(x, n) == x.year + ((x.month - 1 + n) \div 12)

ClaimedDate(x, n) == D(ClaimedYear(x, n), ((x.month - 1 + n) % 12) + 1, Min(x.day, 28))

CallMonths ==
    IF call.plan_name \in DOMAIN call.plans_dict
    THEN call.plans_dict[call.plan_name] ELSE 12

ClaimedStatus(end_date, day) ==
    IF end_date = None THEN "Unknown"
    ELSE IF DateLT(end_date, day) THEN "Expired" ELSE "Active"

WithoutStatus(r) ==
    [MemberID |-> r.MemberID, Name |-> r.Name, Email |-> r.Email,
     StartDate |-> r.StartDate, EndDate |-> r.EndDate, PlanType |-> r.PlanType]

ViewIsFresh(view, table, day) ==
    /\ {WithoutStatus(m) : m \in view} = {WithoutStatus(r) : r \in table}
    /\ \A m \in view : m.Status = ClaimedStatus(m.EndDate, day)

\* C8: at start-up and after every interaction the view holds every row of
\* the table, each with the status deriveStatus gives for its end date and
\* the current day, whatever status the table stores.
C8_StatusRecomputed ==
    /\ ViewIsFresh(members, db, today)
    /\ [][runs' # runs => ViewIsFresh(members', db', today')]_vars

\* the day advanced past an end date: the table still says Active, the
\* view says Expired
C8_Witness ==
    \E m \in members, r \in db :
        /\ m.MemberID = r.MemberID
        /\ r.Status = "Active"
        /\ m.Status = "Expired"
        /\ DateLT(m.EndDate, today)

EditSaved == request'.op = "edit" /\ runs' # runs /\ shown' # <<"ValueError">>

\* C9 as stated: the edit form saves, with quick renew applied and months
\* > 0, the claim's arithmetic on the member's current end date, or on today
\* when the member has none; otherwise the form's end date.
C9_RenewFromCurrentEnd ==
    [][EditSaved =>
          LET old  == RowOf(db, request'.member_id)
              new  == RowOf(db', request'.member_id)
              base == IF old.EndDate # None THEN old.EndDate ELSE today
          IN new.EndDate =
                IF request'.apply_quick /\ request'.renew_months > 0
                THEN ClaimedDate(base, request'.renew_months)
                ELSE request'.end_date
      ]_vars

\* C10: no step changes the start date of a member of the table; the edit
\* form writes back the start date it read.
C10_StartDateKept ==
    [][\A r \in db, r2 \in db' :
          r.MemberID = r2.MemberID => r2.StartDate = r.StartDate]_vars

\* a member added on an earlier day was edited with a quick renew
C10_Witness ==
    /\ request.op = "edit"
    /\ request.apply_quick /\ request.renew_months > 0
    /\ shown = <<"updated successfully", "updated successfully">>
    /\ \E r \in db : /\ r.MemberID = request.member_id
                     /\ r.StartDate # today
                     /\ Conforming(r.MemberID)

PlansSaved == request'.op = "save_plans" /\ runs' # runs

\* C11: a save of the plan catalog leaves the members table exactly as it
\* was, plan types and end dates included, and the view after it still holds
\* every member, those of a plan the catalog does not have among them.
C11_SavePlansKeepsMembers ==
    [][PlansSaved =>
          /\ db' = db
          /\ {WithoutStatus(m) : m \in members'} = {WithoutStatus(r) : r \in db}
      ]_vars

\* plans were saved with the duration of Bronze changed, while the table
\* holds a member of a plan the catalog does not have and a Bronze member
\* whose end date was computed from the former duration
C11_Witness ==
    /\ request.op = "save_plans"
    /\ shown = <<"Plans saved successfully">>
    /\ \E r \in db : r.PlanType \notin DOMAIN plansDb
    /\ \E r \in db : /\ r.PlanType = "Bronze"
                     /\ plansDb["Bronze"] # DEFAULT_PLANS["Bronze"]
                     /\ r.EndDate = plan_end_date(r.StartDate, "Bronze", DEFAULT_PLANS)
                     /\ r.EndDate # plan_end_date(r.StartDate, "Bronze", plansDb)

\* the add form was submitted with a blank name, with an email that a row
\* of the table has in another or the same case, or with a member id that
\* a row of the table has
AddRejected ==
    /\ request'.op = "add"
    /\ runs' # runs
    /\ \/ strip(request'.name) = <<>>
       \/ /\ strip(request'.email) # <<>>
          /\ \E r \in db : lower(r.Email) = lower(strip(request'.email))
       \/ request'.member_id \in Ids(db)

\* C12: an add submission with a blank name, an email already present
\* whatever its case, or a member id already present leaves the members
\* table as it was, and the view after it holds exactly the former rows.
C12_RejectedAddKeepsMembers ==
    [][AddRejected =>
          /\ db' = db
          /\ {WithoutStatus(m) : m \in members'} = {WithoutStatus(r) : r \in db}
      ]_vars

\* an add with a name and a fresh member id was rejected for its email,
\* which differs in case and surrounding blanks from the email of a row
C12_Witness ==
    /\ request.op = "add"
    /\ shown = <<"Email already exists">>
    /\ strip(request.name) # <<>>
    /\ request.member_id \notin Ids(db)
    /\ \E r \in db : /\ r.Email # request.email
                     /\ r.Email # strip(request.email)
                     /\ lower(r.Email) = lower(strip(request.email))

RenewBase == IF call.start # None THEN call.start ELSE today

\* C13: quick renew of 1 to 60 months never yields an end date on or before
\* its base date (the form's end date, or today without one), the clamp of
\* day 29, 30 or 31 to 28 included: it yields a valid date strictly later
\* than the base, or, when the year would pass 9999, no date at all
\* (ValueError, nothing is saved).
C13_RenewStrictlyLater ==
    (ret.done /\ call.fn = "quick_renew" /\ call.months \in 1..RenewMax) =>
        IF ret.date = ValueError
        THEN ClaimedYear(RenewBase, call.months) > MAXYEAR
        ELSE /\ IsValidDate(ret.date)
             /\ DateLT(RenewBase, ret.date)

\* the closest case: a renewal of one month from January 31 gave February 28
C13_Witness ==
    /\ ret.done
    /\ call.fn = "quick_renew"
    /\ call.start = D(2024, 1, 31)
    /\ call.months = 1
    /\ ret.date = D(2024, 2, 28)

====
